---------------------------- MODULE Spec2Model ----------------------------
(***************************************************************************)
(* Model of the website crawling engine, WebsiteCrawler, of                *)
(* backend/src/services/crawlerService.js.                                 *)
(*                                                                         *)
(* One crawl() call is a sequential process; pc is its position.  Every    *)
(* await of the source is a step boundary, and every awaited call on the   *)
(* browser (launch, newPage, setUserAgent/setViewport/goto, content,       *)
(* page.close, browser.close) either resolves or rejects.                  *)
(*                                                                         *)
(* A URL is a record [host, path]; the site served to the crawler is an    *)
(* input: each extraction reads a sequence of anchor targets chosen from   *)
(* AllUrls, and the robots policy is a set of disallowed URLs.             *)
(***************************************************************************)
EXTENDS Integers, Sequences, FiniteSets, TLC

(* ------------------------------ bounds -------------------------------- *)
NumPaths      == 3      \* pages on the seed's host: paths 0 .. NumPaths-1
MaxAnchors    == 2      \* anchors read from one page
MaxPagesBound == 3      \* config.maxPages ranges over 1 .. MaxPagesBound
MaxDepthBound == 2      \* config.maxDepth ranges over 0 .. MaxDepthBound
MaxPathLen    == 4      \* characters in the path of a URL string given to normalizeUrl
ResponsesMaxPages == 2  \* config.maxPages in the crawls over varied responses
ResponsesMaxDepth == 1  \* config.maxDepth in the crawls over varied responses

(* ------------------------------- URLs --------------------------------- *)
SeedHost  == "seed.test"
OtherHost == "other.test"

InternalUrls == {[host |-> SeedHost, path |-> p] : p \in 0 .. NumPaths - 1}
ExternalUrls == {[host |-> OtherHost, path |-> 0]}
AllUrls      == InternalUrls \cup ExternalUrls

\* the value of parentUrl for the seed entry (null in the source)
NullUrl == [host |-> "", path |-> 0]

\* this.startUrl, the normalised seed
startUrl == [host |-> SeedHost, path |-> 0]

getDomain(url) == url.host

isInternalUrlAlways(url) == TRUE

isInternalUrl(url) == getDomain(startUrl) = getDomain(url)

(* ---------------------------- inputs ---------------------------------- *)
\* the status of a response and the load time measured around goto
StatusCodes == {200}
LoadTimes   == {7}

\* sequences of at most n elements of S
RECURSIVE SeqsUpTo(_, _)
SeqsUpTo(S, n) ==
    IF n = 0 THEN {<<>>}
    ELSE LET shorter == SeqsUpTo(S, n - 1)
         IN  shorter \cup {Append(s, x) : s \in {t \in shorter : Len(t) = n - 1}, x \in S}

AnchorLists == SeqsUpTo(AllUrls, MaxAnchors)

\* DEFAULT_CONFIG (userAgent and concurrency, which no modelled step reads, left out)
DEFAULT_CONFIG ==
    [maxDepth          |-> 5,
     maxPages          |-> 100,
     timeout           |-> 30000,
     respectRobotsTxt  |-> TRUE,
     screenshotEnabled |-> TRUE,
     headless          |-> TRUE]

\* { ...defaults, ...options }: the keys of options override those of defaults
Spread(defaults, options) ==
    [k \in DOMAIN defaults \cup DOMAIN options |->
        IF k \in DOMAIN options THEN options[k] ELSE defaults[k]]

\* the options a caller of crawlWebsite passes
CrawlOptions == [maxDepth : 0 .. MaxDepthBound,
                 maxPages : 1 .. MaxPagesBound,
                 respectRobotsTxt : BOOLEAN]

\* this.config as the constructor builds it from the options
Configs == {Spread(DEFAULT_CONFIG, options) : options \in CrawlOptions}

NoReport == [none |-> TRUE]

NoApi == [stage |-> "none"]

NoNorm == [stage |-> "none"]

NoParser == [loaded |-> FALSE, disallow |-> {}]

NoEntry == [url |-> NullUrl, depth |-> 0, parentUrl |-> NullUrl]

NoResponse == [status |-> 0]

NoExtraction == [stage |-> "none"]

VARIABLES
    pc,             \* position of crawl(): see the actions
    config,         \* this.config
    robotsParser,   \* this.robotsParser: NoParser, or the loaded policy
    browser,        \* this.browser: "null" or "launched"
    visitedUrls,    \* this.visitedUrls
    crawlQueue,     \* this.crawlQueue
    results,        \* this.results: a function from the URLs stored to PageResults
    cur,            \* the arguments (url, depth, parentUrl) of the running crawlPage
    response,       \* crawlPage's local response
    loadTime,       \* crawlPage's local loadTime
    openPages,      \* page contexts opened by newPage on which close() was not called
    closeCalls,     \* number of calls of this.browser.close()
    crawlPageCalls, \* per URL, the number of calls of crawlPage
    fatal,          \* the step whose rejection reached crawl()'s catch, or "none"
    report,         \* the value crawl() resolved with, NoReport before
    api,            \* the API layer: the request, the handler it was routed to, its stage
    norm,           \* an application of normalizeUrl and of normalizeUrl to its result
    extraction      \* the running extractPageData: the hrefs it read, the calls that threw

vars == <<pc, config, robotsParser, browser, visitedUrls, crawlQueue, results,
          cur, response, loadTime, openPages, closeCalls, crawlPageCalls, fatal,
          report, api, norm, extraction>>

\* the variables outside the crawler object
sideVars == <<api, norm>>

(* ------------------------- pure helpers ------------------------------- *)
SeqContains(s, x) == \E i \in 1 .. Len(s) : s[i] = x

\* the a[href] loop of extractPageData: classify each anchor, keep first occurrences
RECURSIVE CollectLinks(_, _)
CollectLinks(anchors, links) ==
    IF anchors = <<>> THEN links
    ELSE LET absoluteUrl == Head(anchors)
             next == IF isInternalUrl(absoluteUrl)
                     THEN IF ~SeqContains(links.internal, absoluteUrl)
                          THEN [links EXCEPT !.internal = Append(@, absoluteUrl)]
                          ELSE links
                     ELSE IF ~SeqContains(links.external, absoluteUrl)
                          THEN [links EXCEPT !.external = Append(@, absoluteUrl)]
                          ELSE links
         IN  CollectLinks(Tail(anchors), next)

\* the PageResult returned by extractPageData
extractPageData(url, resp, lt, depth, parentUrl, anchors) ==
    [url        |-> url,
     depth      |-> depth,
     parentUrl  |-> parentUrl,
     statusCode |-> resp.status,
     loadTime   |-> lt,
     crawledAt  |-> "now",
     links      |-> CollectLinks(anchors, [internal |-> <<>>, external |-> <<>>])]

ErrorResultWithStatus(url, depth, parentUrl) ==
    [url        |-> url,
     error      |-> TRUE,
     depth      |-> depth,
     parentUrl  |-> parentUrl,
     statusCode |-> 0,
     crawledAt  |-> "now"]

\* the record stored by crawlPage's catch block
ErrorResult(url, depth, parentUrl) ==
    [url       |-> url,
     error     |-> TRUE,
     depth     |-> depth,
     parentUrl |-> parentUrl,
     crawledAt |-> "now"]

IsError(pageData) == "error" \in DOMAIN pageData

\* this.results.set(url, pageData)
MapSet(map, url, pageData) ==
    [u \in DOMAIN map \cup {url} |-> IF u = url THEN pageData ELSE map[u]]

isAllowedByRobotsAlways(url) == TRUE

isAllowedByRobots(url) ==
    IF ~config.respectRobotsTxt \/ ~robotsParser.loaded
    THEN TRUE
    ELSE url \notin robotsParser.disallow

LoopConditionNoBudget == Len(crawlQueue) > 0

\* the condition of the while loop of crawl()
LoopCondition ==
    Len(crawlQueue) > 0 /\ Cardinality(visitedUrls) < config.maxPages

ShouldQueueLinksOffByOne(depth) == depth <= config.maxDepth

\* the guard of the link-queueing block of crawlPage
ShouldQueueLinks(depth) == depth < config.maxDepth

RECURSIVE QueueLinksAtFront(_, _, _, _)
QueueLinksAtFront(queue, internal, depth, url) ==
    IF internal = <<>> THEN queue
    ELSE LET link == Head(internal)
             q == IF link \notin visitedUrls
                     /\ Cardinality(visitedUrls) < config.maxPages
                  THEN <<[url |-> link, depth |-> depth + 1, parentUrl |-> url]>> \o queue
                  ELSE queue
         IN  QueueLinksAtFront(q, Tail(internal), depth, url)

RECURSIVE QueueLinksSelfParent(_, _, _, _)
QueueLinksSelfParent(queue, internal, depth, url) ==
    IF internal = <<>> THEN queue
    ELSE LET link == Head(internal)
             q == IF link \notin visitedUrls
                     /\ Cardinality(visitedUrls) < config.maxPages
                  THEN Append(queue, [url |-> link, depth |-> depth + 1, parentUrl |-> link])
                  ELSE queue
         IN  QueueLinksSelfParent(q, Tail(internal), depth, url)

\* the for loop of crawlPage over pageData.links.internal (visitedUrls does not
\* change inside it)
RECURSIVE QueueLinks(_, _, _, _)
QueueLinks(queue, internal, depth, url) ==
    IF internal = <<>> THEN queue
    ELSE LET link == Head(internal)
             q == IF link \notin visitedUrls
                     /\ Cardinality(visitedUrls) < config.maxPages
                  THEN Append(queue, [url |-> link, depth |-> depth + 1, parentUrl |-> url])
                  ELSE queue
         IN  QueueLinks(q, Tail(internal), depth, url)

(* ------------------------------- Init --------------------------------- *)
Init ==
    /\ pc = "loadRobots"
    /\ config \in Configs
    /\ robotsParser = NoParser
    /\ browser = "null"
    /\ visitedUrls = {}
    /\ crawlQueue = <<>>
    /\ results = <<>>
    /\ cur = NoEntry
    /\ response = NoResponse
    /\ loadTime = 0
    /\ openPages = 0
    /\ closeCalls = 0
    /\ crawlPageCalls = [u \in AllUrls |-> 0]
    /\ fatal = "none"
    /\ report = NoReport
    /\ api = NoApi
    /\ norm = NoNorm
    /\ extraction = NoExtraction

(* ------------------------------ crawl() ------------------------------- *)
LoadRobotsTxtThrows ==
    /\ pc = "loadRobots"
    /\ UNCHANGED <<report, api, norm, extraction>>
    /\ \/ /\ \E disallow \in SUBSET InternalUrls :
                robotsParser' = [loaded |-> TRUE, disallow |-> disallow]
          /\ pc' = "launch"
          /\ UNCHANGED fatal
       \/ /\ robotsParser' = NoParser
          /\ pc' = "catch"
          /\ fatal' = "robots"
    /\ UNCHANGED <<config, browser, visitedUrls, crawlQueue, results, cur, response,
                   loadTime, openPages, closeCalls, crawlPageCalls>>

\* await this.loadRobotsTxt(): the fetch resolves and the policy is parsed, or
\* anything inside its try throws and the parser stays null
LoadRobotsTxt ==
    /\ pc = "loadRobots"
    /\ UNCHANGED <<report, api, norm, extraction>>
    /\ \/ \E disallow \in SUBSET InternalUrls :
             robotsParser' = [loaded |-> TRUE, disallow |-> disallow]
       \/ robotsParser' = NoParser
    /\ pc' = "launch"
    /\ UNCHANGED <<config, browser, visitedUrls, crawlQueue, results, cur, response,
                   loadTime, openPages, closeCalls, crawlPageCalls, fatal>>

\* this.browser = await puppeteer.launch(...), then the push of the start URL
LaunchOk ==
    /\ pc = "launch"
    /\ UNCHANGED <<report, api, norm, extraction>>
    /\ browser' = "launched"
    /\ crawlQueue' = Append(crawlQueue, [url |-> startUrl, depth |-> 0, parentUrl |-> NullUrl])
    /\ pc' = "loop"
    /\ UNCHANGED <<config, robotsParser, visitedUrls, results, cur, response,
                   loadTime, openPages, closeCalls, crawlPageCalls, fatal>>

\* puppeteer.launch rejects: control goes to the catch of crawl()
LaunchFail ==
    /\ pc = "launch"
    /\ UNCHANGED <<report, api, norm, extraction>>
    /\ pc' = "catch"
    /\ fatal' = "launch"
    /\ UNCHANGED <<config, robotsParser, browser, visitedUrls, crawlQueue, results, cur,
                   response, loadTime, openPages, closeCalls, crawlPageCalls>>

DequeueKeepsHead ==
    /\ pc = "loop"
    /\ UNCHANGED <<report, api, norm, extraction>>
    /\ LoopCondition
    /\ LET entry == Head(crawlQueue)
       IN  /\ crawlQueue' = crawlQueue
           /\ IF \/ entry.url \in visitedUrls
                 \/ entry.depth > config.maxDepth
                 \/ ~isAllowedByRobots(entry.url)
              THEN /\ pc' = "loop"
                   /\ UNCHANGED <<cur, crawlPageCalls>>
              ELSE /\ pc' = "newPage"
                   /\ cur' = entry
                   /\ crawlPageCalls' = [crawlPageCalls EXCEPT ![entry.url] = @ + 1]
    /\ UNCHANGED <<config, robotsParser, browser, visitedUrls, results, response,
                   loadTime, openPages, closeCalls, fatal>>

\* one evaluation of the while condition that holds: shift the head, apply the
\* three skips, otherwise call crawlPage
Dequeue ==
    /\ pc = "loop"
    /\ UNCHANGED <<report, api, norm, extraction>>
    /\ LoopCondition
    /\ LET entry == Head(crawlQueue)
       IN  /\ crawlQueue' = Tail(crawlQueue)
           /\ IF \/ entry.url \in visitedUrls
                 \/ entry.depth > config.maxDepth
                 \/ ~isAllowedByRobots(entry.url)
              THEN /\ pc' = "loop"
                   /\ UNCHANGED <<cur, crawlPageCalls>>
              ELSE /\ pc' = "newPage"
                   /\ cur' = entry
                   /\ crawlPageCalls' = [crawlPageCalls EXCEPT ![entry.url] = @ + 1]
    /\ UNCHANGED <<config, robotsParser, browser, visitedUrls, results, response,
                   loadTime, openPages, closeCalls, fatal>>

LoopExitAnytime ==
    /\ pc = "loop"
    /\ UNCHANGED <<report, api, norm, extraction>>
    /\ pc' = "closeBrowser"
    /\ UNCHANGED <<config, robotsParser, browser, visitedUrls, crawlQueue, results, cur,
                   response, loadTime, openPages, closeCalls, crawlPageCalls, fatal>>

\* the while condition is false: fall through to the close of the browser
LoopExit ==
    /\ pc = "loop"
    /\ UNCHANGED <<report, api, norm, extraction>>
    /\ ~LoopCondition
    /\ pc' = "closeBrowser"
    /\ UNCHANGED <<config, robotsParser, browser, visitedUrls, crawlQueue, results, cur,
                   response, loadTime, openPages, closeCalls, crawlPageCalls, fatal>>

\* await this.browser.close() after the loop; a rejection goes to the catch
CloseBrowser ==
    /\ pc = "closeBrowser"
    /\ UNCHANGED <<report, api, norm, extraction>>
    /\ closeCalls' = closeCalls + 1
    /\ \/ /\ pc' = "report"
          /\ UNCHANGED fatal
       \/ /\ pc' = "catch"
          /\ fatal' = "browserClose"
    /\ UNCHANGED <<config, robotsParser, browser, visitedUrls, crawlQueue, results, cur,
                   response, loadTime, openPages, crawlPageCalls>>

\* the config snapshot of the report
ReportConfig ==
    [maxDepth         |-> config.maxDepth,
     maxPages         |-> config.maxPages,
     respectRobotsTxt |-> config.respectRobotsTxt]

\* the sum of loadTime over the PageResults of the URLs in pages
RECURSIVE SumLoadTime(_)
SumLoadTime(pages) ==
    IF pages = {} THEN 0
    ELSE LET u == CHOOSE v \in pages : TRUE
         IN  results[u].loadTime + SumLoadTime(pages \ {u})

\* .filter(page => page.loadTime): the PageResults whose loadTime is truthy,
\* that is defined and not 0
LoadTimeSamples ==
    {u \in DOMAIN results : "loadTime" \in DOMAIN results[u] /\ results[u].loadTime # 0}

\* statistics.avgLoadTime: the reduce adds page.loadTime / arr.length for each
\* sample, starting from 0.  The value is kept as the exact fraction sum/count
\* (count = 0: no sample, the value is 0); floating-point rounding is left out.
avgLoadTime ==
    [sum |-> SumLoadTime(LoadTimeSamples), count |-> Cardinality(LoadTimeSamples)]

\* generateReport(): the fields of the report that depend on the crawl state
generateReport ==
    [website    |-> startUrl,
     totalPages |-> Cardinality(visitedUrls),
     config     |-> ReportConfig,
     statistics |-> [avgLoadTime |-> avgLoadTime]]

\* return this.generateReport()
ReturnReport ==
    /\ pc = "report"
    /\ report' = generateReport
    /\ UNCHANGED <<sideVars, extraction>>
    /\ pc' = "resolved"
    /\ UNCHANGED <<config, robotsParser, browser, visitedUrls, crawlQueue, results, cur,
                   response, loadTime, openPages, closeCalls, crawlPageCalls, fatal>>

CatchSkipsClose == FALSE

\* the test of the catch block of crawl(): if (this.browser)
CatchClosesBrowser == browser # "null"

\* the catch block of crawl(): close the browser if there is one, rethrow
\* (when this close rejects, crawl() rejects with that error instead)
CatchHandler ==
    /\ pc = "catch"
    /\ UNCHANGED <<report, api, norm, extraction>>
    /\ closeCalls' = IF CatchClosesBrowser THEN closeCalls + 1 ELSE closeCalls
    /\ pc' = "rejected"
    /\ UNCHANGED <<config, robotsParser, browser, visitedUrls, crawlQueue, results, cur,
                   response, loadTime, openPages, crawlPageCalls, fatal>>

(* ----------------------------- crawlPage ------------------------------ *)
\* const page = await this.browser.newPage(), outside the try of crawlPage
NewPage ==
    /\ pc = "newPage"
    /\ UNCHANGED <<report, api, norm, extraction>>
    /\ \/ /\ openPages' = openPages + 1
          /\ pc' = "navigate"
          /\ UNCHANGED fatal
       \/ /\ pc' = "catch"
          /\ fatal' = "newPage"
          /\ UNCHANGED openPages
    /\ UNCHANGED <<config, robotsParser, browser, visitedUrls, crawlQueue, results, cur,
                   response, loadTime, closeCalls, crawlPageCalls>>

NavigateNoMark(statuses, times) ==
    /\ pc = "navigate"
    /\ UNCHANGED <<report, api, norm, extraction>>
    /\ \E status \in statuses : response' = [status |-> status]
    /\ loadTime' \in times
    /\ pc' = "extract"
    /\ UNCHANGED <<config, robotsParser, browser, visitedUrls, crawlQueue, results, cur,
                   openPages, closeCalls, crawlPageCalls, fatal>>

\* setUserAgent, setViewport and goto all resolve, with a response whose status
\* is one of statuses and a load time among times; the URL is marked visited
Navigate(statuses, times) ==
    /\ pc = "navigate"
    /\ UNCHANGED <<report, api, norm, extraction>>
    /\ \E status \in statuses : response' = [status |-> status]
    /\ loadTime' \in times
    /\ visitedUrls' = visitedUrls \cup {cur.url}
    /\ pc' = "extract"
    /\ UNCHANGED <<config, robotsParser, browser, crawlQueue, results, cur, openPages,
                   closeCalls, crawlPageCalls, fatal>>

NavigateOk == Navigate(StatusCodes, LoadTimes)

\* setUserAgent, setViewport or goto rejects (timeout, network error)
NavigateFail ==
    /\ pc = "navigate"
    /\ UNCHANGED <<report, api, norm, extraction>>
    /\ pc' = "pageCatch"
    /\ UNCHANGED <<config, robotsParser, browser, visitedUrls, crawlQueue, results, cur,
                   response, loadTime, openPages, closeCalls, crawlPageCalls, fatal>>

\* extractPageData resolves; the result is stored and the internal links queued
ExtractOk ==
    /\ pc = "extract"
    /\ UNCHANGED <<report, api, norm, extraction>>
    /\ \E anchors \in AnchorLists :
          LET pageData == extractPageData(cur.url, response, loadTime, cur.depth,
                                          cur.parentUrl, anchors)
          IN  /\ results' = MapSet(results, cur.url, pageData)
              /\ crawlQueue' = IF ShouldQueueLinks(cur.depth)
                               THEN QueueLinks(crawlQueue, pageData.links.internal,
                                               cur.depth, cur.url)
                               ELSE crawlQueue
    /\ pc' = "pageFinally"
    /\ UNCHANGED <<config, robotsParser, browser, visitedUrls, cur, response, loadTime,
                   openPages, closeCalls, crawlPageCalls, fatal>>

\* extractPageData rejects (page.content(), response.headers(), page.title(), ...)
ExtractFail ==
    /\ pc = "extract"
    /\ UNCHANGED <<report, api, norm, extraction>>
    /\ pc' = "pageCatch"
    /\ UNCHANGED <<config, robotsParser, browser, visitedUrls, crawlQueue, results, cur,
                   response, loadTime, openPages, closeCalls, crawlPageCalls, fatal>>

\* the catch block of crawlPage
PageCatch ==
    /\ pc = "pageCatch"
    /\ UNCHANGED <<report, api, norm, extraction>>
    /\ results' = MapSet(results, cur.url, ErrorResult(cur.url, cur.depth, cur.parentUrl))
    /\ pc' = "pageFinally"
    /\ UNCHANGED <<config, robotsParser, browser, visitedUrls, crawlQueue, cur, response,
                   loadTime, openPages, closeCalls, crawlPageCalls, fatal>>

PageFinallyLeavesOpen ==
    /\ pc = "pageFinally"
    /\ UNCHANGED <<report, api, norm>>
    /\ extraction' = NoExtraction
    /\ pc' = "loop"
    /\ cur' = NoEntry
    /\ response' = NoResponse
    /\ loadTime' = 0
    /\ UNCHANGED <<config, robotsParser, browser, visitedUrls, crawlQueue, results,
                   openPages, closeCalls, crawlPageCalls, fatal>>

\* the finally block of crawlPage: await page.close(); a rejection leaves
\* crawlPage and reaches the catch of crawl()
PageFinally ==
    /\ pc = "pageFinally"
    /\ UNCHANGED <<report, api, norm>>
    /\ extraction' = NoExtraction
    /\ openPages' = openPages - 1
    /\ cur' = NoEntry
    /\ response' = NoResponse
    /\ loadTime' = 0
    /\ \/ /\ pc' = "loop"
          /\ UNCHANGED fatal
       \/ /\ pc' = "catch"
          /\ fatal' = "pageClose"
    /\ UNCHANGED <<config, robotsParser, browser, visitedUrls, crawlQueue, results,
                   closeCalls, crawlPageCalls>>

Next ==
    \/ LoadRobotsTxt
    \/ LaunchOk
    \/ LaunchFail
    \/ Dequeue
    \/ LoopExit
    \/ CloseBrowser
    \/ ReturnReport
    \/ CatchHandler
    \/ NewPage
    \/ NavigateOk
    \/ NavigateFail
    \/ ExtractOk
    \/ ExtractFail
    \/ PageCatch
    \/ PageFinally

Spec == Init /\ [][Next]_vars

TypeOK ==
    /\ pc \in {"loadRobots", "launch", "loop", "closeBrowser", "report", "catch",
               "newPage", "navigate", "extract", "pageCatch", "pageFinally",
               "resolved", "rejected"}
    /\ config \in Configs
    /\ browser \in {"null", "launched"}
    /\ visitedUrls \subseteq AllUrls
    /\ DOMAIN results \subseteq AllUrls
    /\ openPages \in 0 .. 1
    /\ closeCalls \in 0 .. 2
    /\ report = NoReport \/ pc = "resolved"
    /\ api = NoApi
    /\ norm = NoNorm
    /\ extraction = NoExtraction

\* crawl() under the scheduling of the event loop: an awaited call settles
\* (resolves or rejects) and the continuation then runs, so a step that is
\* possible is eventually taken
FairSpec == Spec /\ WF_vars(Next)

(* ------------------- crawls over varied responses --------------------- *)
\* statuses a navigation can complete with, and load times it can measure
AnyStatusCodes == {200, 404}
AnyLoadTimes   == {0, 7}

NavigateAny == Navigate(AnyStatusCodes, AnyLoadTimes)

\* a crawl with a smaller page budget and depth limit
InitResponses ==
    /\ Init
    /\ config.maxPages <= ResponsesMaxPages
    /\ config.maxDepth <= ResponsesMaxDepth

NextResponses ==
    \/ LoadRobotsTxt
    \/ LaunchOk
    \/ LaunchFail
    \/ Dequeue
    \/ LoopExit
    \/ CloseBrowser
    \/ ReturnReport
    \/ CatchHandler
    \/ NewPage
    \/ NavigateAny
    \/ NavigateFail
    \/ ExtractOk
    \/ ExtractFail
    \/ PageCatch
    \/ PageFinally

SpecResponses == InitResponses /\ [][NextResponses]_vars

(* --------------------------- normalizeUrl ----------------------------- *)
\* A URL string is a sequence of tokens: an optional scheme token, the host "h",
\* then the characters of the path, "/" or "a".
Schemes == {"https://", "http://"}

PathStrings == {path \in SeqsUpTo({"/", "a"}, MaxPathLen) : path = <<>> \/ Head(path) = "/"}

\* the strings normalizeUrl is applied to: with or without a scheme
UrlStrings ==
    {<<"h">> \o path : path \in PathStrings}
        \cup {<<scheme, "h">> \o path : scheme \in Schemes, path \in PathStrings}

\* url.startsWith('http://') || url.startsWith('https://')
StartsWithScheme(url) == url # <<>> /\ Head(url) \in Schemes

\* new URL(url).href for a string with a scheme and a host: an empty path is
\* serialised as "/", any other path as it is
Href(url) ==
    LET path == SubSeq(url, 3, Len(url))
    IN  <<url[1], url[2]>> \o (IF path = <<>> THEN <<"/">> ELSE path)

\* href.replace(/\/$/, ''): one "/" at the end of the string is removed
StripTrailingSlash(href) ==
    IF href # <<>> /\ href[Len(href)] = "/"
    THEN SubSeq(href, 1, Len(href) - 1)
    ELSE href

normalizeUrl(url) ==
    LET withScheme == IF ~StartsWithScheme(url) THEN <<"https://">> \o url ELSE url
    IN  StripTrailingSlash(Href(withScheme))

\* the crawler object as constructed, with no crawl() running on it
CrawlerIdle ==
    /\ pc = "idle"
    /\ config = DEFAULT_CONFIG
    /\ robotsParser = NoParser
    /\ browser = "null"
    /\ visitedUrls = {}
    /\ crawlQueue = <<>>
    /\ results = <<>>
    /\ cur = NoEntry
    /\ response = NoResponse
    /\ loadTime = 0
    /\ openPages = 0
    /\ closeCalls = 0
    /\ crawlPageCalls = [u \in AllUrls |-> 0]
    /\ fatal = "none"
    /\ report = NoReport
    /\ extraction = NoExtraction

crawlerVars == <<pc, config, robotsParser, browser, visitedUrls, crawlQueue, results,
                 cur, response, loadTime, openPages, closeCalls, crawlPageCalls, fatal,
                 report, extraction>>

InitNormalize ==
    /\ CrawlerIdle
    /\ api = NoApi
    /\ \E url \in UrlStrings :
          norm = [stage |-> "input", url |-> url, once |-> <<>>, twice |-> <<>>]

\* normalizeUrl(u)
NormalizeOnce ==
    /\ norm.stage = "input"
    /\ norm' = [norm EXCEPT !.stage = "once", !.once = normalizeUrl(norm.url)]
    /\ UNCHANGED <<crawlerVars, api>>

\* normalizeUrl(normalizeUrl(u))
NormalizeTwice ==
    /\ norm.stage = "once"
    /\ norm' = [norm EXCEPT !.stage = "twice", !.twice = normalizeUrl(norm.once)]
    /\ UNCHANGED <<crawlerVars, api>>

NextNormalize == NormalizeOnce \/ NormalizeTwice

SpecNormalize == InitNormalize /\ [][NextNormalize]_vars

(* ----------------------------- API layer ------------------------------ *)
\* the crawler router: its routes in registration order; a pattern is a literal
\* segment or a parameter (":crawlId") that matches any segment
CrawlerRoutes ==
    << [method |-> "POST", param |-> FALSE, segment |-> "start",   handler |-> "startCrawl"],
       [method |-> "GET",  param |-> TRUE,  segment |-> "crawlId", handler |-> "getCrawl"],
       [method |-> "GET",  param |-> FALSE, segment |-> "history", handler |-> "getCrawlHistory"],
       [method |-> "GET",  param |-> FALSE, segment |-> "stats",   handler |-> "getStats"] >>

\* the path of a request below /api/v1/crawl: one segment
RequestPaths == {"start", "history", "stats", "crawl_1"}

RouteMatches(route, method, path) ==
    route.method = method /\ (route.param \/ route.segment = path)

\* the handler of the first route that matches; no handler of the controller
\* passes the request on
RECURSIVE FirstMatch(_, _, _)
FirstMatch(routes, method, path) ==
    IF routes = <<>> THEN "notFound"
    ELSE IF RouteMatches(Head(routes), method, path) THEN Head(routes).handler
    ELSE FirstMatch(Tail(routes), method, path)

\* the fields of a request body; a field not in present is undefined
BodyKeys == {"url", "maxDepth", "maxPages", "screenshotEnabled", "respectRobotsTxt",
             "timeoutMs"}

TimeoutValues == {5000}

RequestBodies ==
    {b \in [present           : SUBSET BodyKeys,
            maxDepth          : 0 .. MaxDepthBound,
            maxPages          : 1 .. MaxPagesBound,
            screenshotEnabled : BOOLEAN,
            respectRobotsTxt  : BOOLEAN,
            timeoutMs         : TimeoutValues] :
        /\ "maxDepth" \notin b.present => b.maxDepth = 0
        /\ "maxPages" \notin b.present => b.maxPages = 1
        /\ "screenshotEnabled" \notin b.present => b.screenshotEnabled
        /\ "respectRobotsTxt" \notin b.present => b.respectRobotsTxt}

\* the options object startCrawl builds from the body
StartCrawlOptions(body) ==
    [maxDepth          |-> IF "maxDepth" \in body.present /\ body.maxDepth # 0
                           THEN body.maxDepth ELSE 5,
     maxPages          |-> IF "maxPages" \in body.present /\ body.maxPages # 0
                           THEN body.maxPages ELSE 100,
     screenshotEnabled |-> ~("screenshotEnabled" \in body.present /\ ~body.screenshotEnabled),
     headless          |-> TRUE]

InitApi ==
    /\ CrawlerIdle
    /\ norm = NoNorm
    /\ \E method \in {"GET", "POST"}, path \in RequestPaths, body \in RequestBodies :
          api = [stage |-> "received", method |-> method, path |-> path, body |-> body,
                 handler |-> "none", status |-> 0]

\* the router hands the request to the first matching route
RouteRequest ==
    /\ api.stage = "received"
    /\ api' = [api EXCEPT !.stage = "routed",
                           !.handler = FirstMatch(CrawlerRoutes, api.method, api.path)]
    /\ UNCHANGED <<crawlerVars, norm>>

\* startCrawl: 400 without a url; otherwise the options are built and
\* crawlWebsite constructs the crawler with them and calls crawl()
StartCrawl ==
    /\ api.stage = "routed"
    /\ api.handler = "startCrawl"
    /\ IF "url" \notin api.body.present
       THEN /\ api' = [api EXCEPT !.stage = "responded", !.status = 400]
            /\ UNCHANGED <<pc, config>>
       ELSE /\ api' = [api EXCEPT !.stage = "crawling"]
            /\ config' = Spread(DEFAULT_CONFIG, StartCrawlOptions(api.body))
            /\ pc' = "loadRobots"
    /\ UNCHANGED <<robotsParser, browser, visitedUrls, crawlQueue, results, cur, response,
                   loadTime, openPages, closeCalls, crawlPageCalls, fatal, report, norm,
                   extraction>>

\* getCrawl, getCrawlHistory and getStats answer from storage; a request no
\* route matches is answered 404
Respond ==
    /\ api.stage = "routed"
    /\ api.handler # "startCrawl"
    /\ api' = [api EXCEPT !.stage = "responded",
                           !.status = IF api.handler = "notFound" THEN 404 ELSE 200]
    /\ UNCHANGED <<crawlerVars, norm>>

NextApi == RouteRequest \/ StartCrawl \/ Respond

SpecApi == InitApi /\ [][NextApi]_vars

(* ------------- crawlWebsite: the constructor, extraction -------------- *)
\* the seed strings given to crawlWebsite: with and without a scheme, with a
\* host or with none
SeedStrings ==
    { <<"h">>, <<"https://", "h", "/">>, <<>>, <<"http://">> }

\* new URL(url) returns for a string with a scheme and a host, and throws otherwise
UrlParses(url) == Len(url) >= 2 /\ url[1] \in Schemes /\ url[2] = "h"

\* the try of normalizeUrl throws (and its catch throws 'Invalid URL')
normalizeUrlThrows(url) ==
    ~UrlParses(IF ~StartsWithScheme(url) THEN <<"https://">> \o url ELSE url)

\* an href that new URL(href, url) rejects
InvalidHref == [host |-> "", path |-> 0 - 1]

\* the hrefs of the a[href] elements of a page
HrefLists == SeqsUpTo(AllUrls \cup {InvalidHref}, MaxAnchors)

ParsedAnchorsKeepInvalid(hrefs) == hrefs

\* the try/catch around new URL(href, url) in the a[href] loop: an href that
\* does not parse is skipped
ParsedAnchors(hrefs) == SelectSeq(hrefs, LAMBDA href : href # InvalidHref)

\* the calls of extractPageData that can throw: page.content(), on which the
\* cheerio categories (meta, links, resources, headings) rest, response.headers(),
\* page.screenshot() and page.title()
ExtractCalls == {"content", "headers", "screenshot", "title"}

\* at most one call throws during one extraction
FailureSets == {{}} \cup {{call} : call \in ExtractCalls}

\* the calls outside any try/catch: a throw of one of them leaves extractPageData
ExtractionThrows(failed) == failed \cap {"content", "headers", "title"} # {}

\* let screenshot = null; set inside a try/catch when screenshotEnabled
Screenshot(failed) ==
    IF config.screenshotEnabled /\ "screenshot" \notin failed THEN "data" ELSE "null"

\* the PageResult with the categories the crawl loop does not read
PageDataCategories(pageData, failed) ==
    Spread(pageData,
           [title      |-> "title",
            meta       |-> "meta",
            headings   |-> "headings",
            resources  |-> "resources",
            headers    |-> "headers",
            screenshot |-> Screenshot(failed)])

\* crawlWebsite called with a seed string and options; nothing has run yet
InitCrawlWebsite ==
    /\ pc = "construct"
    /\ config \in Configs
    /\ config.maxPages <= ResponsesMaxPages
    /\ config.maxDepth <= ResponsesMaxDepth
    /\ robotsParser = NoParser
    /\ browser = "null"
    /\ visitedUrls = {}
    /\ crawlQueue = <<>>
    /\ results = <<>>
    /\ cur = NoEntry
    /\ response = NoResponse
    /\ loadTime = 0
    /\ openPages = 0
    /\ closeCalls = 0
    /\ crawlPageCalls = [u \in AllUrls |-> 0]
    /\ fatal = "none"
    /\ report = NoReport
    /\ api = NoApi
    /\ extraction = NoExtraction
    /\ \E url \in SeedStrings :
          norm = [stage |-> "input", url |-> url, once |-> <<>>, twice |-> <<>>]

\* new WebsiteCrawler(url, options) inside the async crawlWebsite: normalizeUrl
\* throws and crawlWebsite rejects, or the crawler is built and crawl() starts
Construct ==
    /\ pc = "construct"
    /\ IF normalizeUrlThrows(norm.url)
       THEN /\ norm' = [norm EXCEPT !.stage = "threw"]
            /\ pc' = "rejected"
            /\ fatal' = "invalidUrl"
       ELSE /\ norm' = [norm EXCEPT !.stage = "once", !.once = normalizeUrl(norm.url)]
            /\ pc' = "loadRobots"
            /\ UNCHANGED fatal
    /\ UNCHANGED <<config, robotsParser, browser, visitedUrls, crawlQueue, results, cur,
                   response, loadTime, openPages, closeCalls, crawlPageCalls, report, api,
                   extraction>>

\* await this.extractPageData(...) and what follows it in the try of crawlPage,
\* with the hrefs read and the calls that throw as inputs: a throw outside a
\* try/catch goes to the catch of crawlPage, otherwise the PageResult is stored
\* and its internal links are queued
ExtractPageData ==
    /\ pc = "extract"
    /\ UNCHANGED <<report, api, norm>>
    /\ \E hrefs \in HrefLists, failed \in FailureSets :
          /\ extraction' = [stage |-> "ran", hrefs |-> hrefs, failed |-> failed]
          /\ IF ExtractionThrows(failed)
             THEN /\ pc' = "pageCatch"
                  /\ UNCHANGED <<results, crawlQueue>>
             ELSE LET pageData ==
                          PageDataCategories(
                              extractPageData(cur.url, response, loadTime, cur.depth,
                                              cur.parentUrl, ParsedAnchors(hrefs)),
                              failed)
                  IN  /\ results' = MapSet(results, cur.url, pageData)
                      /\ crawlQueue' = IF ShouldQueueLinks(cur.depth)
                                       THEN QueueLinks(crawlQueue, pageData.links.internal,
                                                       cur.depth, cur.url)
                                       ELSE crawlQueue
                      /\ pc' = "pageFinally"
    /\ UNCHANGED <<config, robotsParser, browser, visitedUrls, cur, response, loadTime,
                   openPages, closeCalls, crawlPageCalls, fatal>>

NextCrawlWebsite ==
    \/ Construct
    \/ LoadRobotsTxt
    \/ LaunchOk
    \/ LaunchFail
    \/ Dequeue
    \/ LoopExit
    \/ CloseBrowser
    \/ ReturnReport
    \/ CatchHandler
    \/ NewPage
    \/ NavigateOk
    \/ NavigateFail
    \/ ExtractPageData
    \/ PageCatch
    \/ PageFinally

SpecCrawlWebsite == InitCrawlWebsite /\ [][NextCrawlWebsite]_vars

(* ----------------------------- properties ----------------------------- *)
\* positions inside crawlPage
CrawlPagePcs == {"newPage", "navigate", "extract", "pageCatch", "pageFinally"}

\* crawl() has settled
Settled == pc \in {"resolved", "rejected"}

\* C1: in every reachable state of crawl(), the number of URLs in visitedUrls
\* is at most config.maxPages.
C1_VisitedWithinBudget == Cardinality(visitedUrls) <= config.maxPages

\* C1 witness: the page budget is reached while the frontier still holds entries.
C1_Witness ==
    /\ pc = "loop"
    /\ Cardinality(visitedUrls) = config.maxPages
    /\ Len(crawlQueue) > 0

\* C2 (as claimed): the results map never holds more than config.maxPages
\* PageResults, success and error records together.
C2_ResultsWithinBudget == Cardinality(DOMAIN results) <= config.maxPages

\* C3: every stored PageResult, every queued entry and every entry handed to
\* crawlPage has depth <= config.maxDepth.
C3_DepthBounded ==
    /\ \A u \in DOMAIN results : results[u].depth <= config.maxDepth
    /\ \A i \in 1 .. Len(crawlQueue) : crawlQueue[i].depth <= config.maxDepth
    /\ pc \in CrawlPagePcs => cur.depth <= config.maxDepth

\* C3 witness: a page stored at depth maxDepth >= 1 has an internal link that is
\* not visited while the page budget is not used up: only the depth guard kept
\* the link out of the queue.
C3_Witness ==
    /\ pc = "pageFinally"
    /\ config.maxDepth >= 1
    /\ cur.depth = config.maxDepth
    /\ cur.url \in DOMAIN results
    /\ ~IsError(results[cur.url])
    /\ Cardinality(visitedUrls) < config.maxPages
    /\ \E i \in 1 .. Len(results[cur.url].links.internal) :
          results[cur.url].links.internal[i] \notin visitedUrls

\* C4 (as claimed): within one crawl, crawlPage is called at most once per URL.
C4_OneAttemptPerUrl == \A u \in AllUrls : crawlPageCalls[u] <= 1

\* C5 (as claimed): once crawlPage has finished for a URL, also when its
\* navigation failed, the URL is in visitedUrls: every key of the results map is
\* a visited URL.
C5_FailedUrlVisited ==
    pc \notin CrawlPagePcs => \A u \in DOMAIN results : u \in visitedUrls

\* C6 (as claimed): no failure of a step of crawlPage (opening or closing the
\* page context included) makes crawl() reject.
C6_PageFailureNotFatal == pc = "rejected" => fatal \notin {"newPage", "pageClose"}

\* C7 (as claimed): browser.close() is never called twice, and it has been
\* called exactly once when a crawl() that launched the browser settles.
C7_ClosedExactlyOnce ==
    /\ closeCalls <= 1
    /\ (Settled /\ browser = "launched") => closeCalls = 1

\* C8: when crawl() rejects after the browser was launched, browser.close() has
\* been called and awaited before; when the launch failed, crawl() rejects with
\* no browser held and no close attempted.
C8_ClosedBeforeReject ==
    pc = "rejected" =>
        /\ browser = "launched" => closeCalls >= 1
        /\ fatal = "launch" => (browser = "null" /\ closeCalls = 0)

\* C8 witness: crawl() has rejected because newPage failed under a launched browser.
C8_Witness ==
    /\ pc = "rejected"
    /\ browser = "launched"
    /\ fatal = "newPage"

\* C9: at most one page context is open at any time, none is open when the loop
\* takes its next entry, and none is open once browser.close() has been called.
C9_PageContextClosed ==
    /\ openPages <= 1
    /\ pc = "loop" => openPages = 0
    /\ closeCalls >= 1 => openPages = 0

\* C9 witness: the loop is about to take its next entry after one page was
\* stored as a success and another as an error.
C9_Witness ==
    /\ pc = "loop"
    /\ Len(crawlQueue) > 0
    /\ \E u \in DOMAIN results : IsError(results[u])
    /\ \E u \in DOMAIN results : ~IsError(results[u])

\* C10: with respectRobotsTxt true and a loaded policy, a disallowed URL is
\* never handed to crawlPage, never in visitedUrls and never a key of results.
C10_DisallowedNeverCrawled ==
    (config.respectRobotsTxt /\ robotsParser.loaded) =>
        \A u \in robotsParser.disallow :
            /\ crawlPageCalls[u] = 0
            /\ u \notin visitedUrls
            /\ u \notin DOMAIN results
            /\ ~(pc \in CrawlPagePcs /\ cur.url = u)

\* C10 witness: the frontier is drained with budget left, and a disallowed URL
\* was linked from a stored page shallower than maxDepth, so that it had been
\* queued and was dropped by the robots test.
C10_Witness ==
    /\ pc = "closeBrowser"
    /\ config.respectRobotsTxt
    /\ robotsParser.loaded
    /\ Cardinality(visitedUrls) < config.maxPages
    /\ \E u \in robotsParser.disallow, v \in DOMAIN results :
          /\ ~IsError(results[v])
          /\ results[v].depth < config.maxDepth
          /\ SeqContains(results[v].links.internal, u)

\* C11: when the robots.txt fetch failed, loadRobotsTxt has not thrown, every URL
\* is allowed, the crawl has gone on to the launch of the browser, and a crawl
\* whose loop has ended has navigated the seed.
C11_RobotsFailureAllowsAll ==
    (pc # "loadRobots" /\ ~robotsParser.loaded) =>
        /\ fatal # "robots"
        /\ \A u \in AllUrls : isAllowedByRobots(u)
        /\ pc = "launch" \/ browser = "launched" \/ fatal = "launch"
        /\ pc \in {"closeBrowser", "report", "resolved"} => crawlPageCalls[startUrl] >= 1

\* C11 witness: the seed has been visited in a crawl that respects robots.txt
\* and whose robots.txt fetch failed.
C11_Witness ==
    /\ pc = "resolved"
    /\ config.respectRobotsTxt
    /\ ~robotsParser.loaded
    /\ startUrl \in visitedUrls

\* C12 (as claimed): normalizeUrl is idempotent on every valid absolute URL:
\* normalizeUrl(normalizeUrl(u)) = normalizeUrl(u).
C12_NormalizeIdempotent ==
    (norm.stage = "twice" /\ StartsWithScheme(norm.url)) => norm.twice = norm.once

\* C13 (as claimed): with maxDepth = 0, a crawl that returns a report has
\* produced exactly one PageResult.
C13_ExactlyOneResult ==
    (config.maxDepth = 0 /\ pc = "resolved") => Cardinality(DOMAIN results) = 1

\* C13 (amended): with maxDepth = 0 no entry other than the seed's is ever
\* queued, passed to crawlPage or stored, and a crawl that returns a report has
\* produced exactly the seed's PageResult when robots allow the seed and no
\* PageResult when they disallow it.
C13_OnlySeedAtDepthZero ==
    config.maxDepth = 0 =>
        /\ \A i \in 1 .. Len(crawlQueue) : crawlQueue[i].url = startUrl
        /\ \A u \in AllUrls \ {startUrl} : crawlPageCalls[u] = 0
        /\ DOMAIN results \subseteq {startUrl}
        /\ pc = "resolved" =>
              DOMAIN results = IF isAllowedByRobots(startUrl) THEN {startUrl} ELSE {}

\* C13 witness: a crawl with maxDepth = 0 and budget for more pages has returned
\* its report, and the seed's PageResult records an internal link to another page.
C13_Witness ==
    /\ pc = "resolved"
    /\ config.maxDepth = 0
    /\ config.maxPages >= 2
    /\ startUrl \in DOMAIN results
    /\ ~IsError(results[startUrl])
    /\ \E u \in InternalUrls \ {startUrl} : SeqContains(results[startUrl].links.internal, u)

\* C14: with maxPages = 1 and a seed that loaded, no URL other than the seed is
\* ever passed to crawlPage or stored, and the report has totalPages = 1.
C14_SinglePageBudget ==
    (config.maxPages = 1 /\ startUrl \in DOMAIN results /\ ~IsError(results[startUrl])) =>
        /\ \A u \in AllUrls \ {startUrl} : crawlPageCalls[u] = 0
        /\ DOMAIN results = {startUrl}
        /\ pc = "resolved" => report.totalPages = 1

\* C14 witness: the report of a crawl with maxPages = 1 and depth to spare is
\* returned while the seed's PageResult records two internal links.
C14_Witness ==
    /\ pc = "resolved"
    /\ config.maxPages = 1
    /\ config.maxDepth >= 1
    /\ startUrl \in DOMAIN results
    /\ ~IsError(results[startUrl])
    /\ Len(results[startUrl].links.internal) = 2
    /\ results[startUrl].links.internal[1] # startUrl

\* the fields of a PageResult stored for a failed page
ErrorFields == {"url", "error", "depth", "parentUrl", "crawledAt"}

\* C15: the catch block of crawlPage, entered when navigation (or extraction)
\* threw, stores a PageResult with exactly the fields url, error, depth,
\* parentUrl and crawledAt, queues nothing, marks nothing and throws nothing on:
\* control goes to the finally block with no fatal error pending.  Every error
\* record of the results map has exactly those fields.
C15_FailedPageRecord ==
    [][ /\ \A u \in DOMAIN results' :
              IsError(results'[u]) => DOMAIN results'[u] = ErrorFields
        /\ pc = "pageCatch" =>
              /\ pc' = "pageFinally"
              /\ fatal' = "none"
              /\ crawlQueue' = crawlQueue
              /\ visitedUrls' = visitedUrls
              /\ IsError(results'[cur.url])
              /\ results'[cur.url].depth = cur.depth
              /\ results'[cur.url].parentUrl = cur.parentUrl ]_vars

\* C15 witness: the loop is about to take the next frontier entry, with budget
\* left, after a page whose navigation failed was stored as an error record.
C15_Witness ==
    /\ pc = "loop"
    /\ Len(crawlQueue) > 0
    /\ Cardinality(visitedUrls) < config.maxPages
    /\ \E u \in DOMAIN results : IsError(results[u]) /\ u \notin visitedUrls

\* C16 (as claimed): a page whose navigation completed with a non-2xx status is
\* stored as an error PageResult.
C16_Non2xxIsError ==
    \A u \in DOMAIN results :
        ("statusCode" \in DOMAIN results[u] /\ results[u].statusCode \notin 200 .. 299)
            => IsError(results[u])

\* C17 (as claimed): every recognised config field supplied to startCrawl is
\* the value the crawl runs with, and maxDepth, maxPages and respectRobotsTxt
\* show in the report's config snapshot with the supplied values.
C17_ConfigTakesEffect ==
    api.stage = "crawling" =>
        /\ "maxDepth" \in api.body.present =>
              (config.maxDepth = api.body.maxDepth /\ ReportConfig.maxDepth = api.body.maxDepth)
        /\ "maxPages" \in api.body.present =>
              (config.maxPages = api.body.maxPages /\ ReportConfig.maxPages = api.body.maxPages)
        /\ "screenshotEnabled" \in api.body.present =>
              config.screenshotEnabled = api.body.screenshotEnabled
        /\ "respectRobotsTxt" \in api.body.present =>
              /\ config.respectRobotsTxt = api.body.respectRobotsTxt
              /\ ReportConfig.respectRobotsTxt = api.body.respectRobotsTxt
        /\ "timeoutMs" \in api.body.present => config.timeout = api.body.timeoutMs

\* C18 (as claimed): GET /history is handled by getCrawlHistory, GET /stats by
\* getStats, and GET /<crawlId> by getCrawl.
C18_RouteHandlers ==
    (api.stage \in {"routed", "responded", "crawling"} /\ api.method = "GET") =>
        /\ api.path = "history" => api.handler = "getCrawlHistory"
        /\ api.path = "stats" => api.handler = "getStats"
        /\ api.path = "crawl_1" => api.handler = "getCrawl"

\* C19: the depths in crawlQueue are non-decreasing from head to tail and differ
\* by at most 1; while crawlPage runs, no queued entry is shallower than the
\* entry being crawled and none is more than one level deeper.
C19_BreadthFirstOrder ==
    /\ \A i, j \in 1 .. Len(crawlQueue) :
          i < j => /\ crawlQueue[i].depth <= crawlQueue[j].depth
                   /\ crawlQueue[j].depth - crawlQueue[i].depth <= 1
    /\ pc \in CrawlPagePcs =>
          \A i \in 1 .. Len(crawlQueue) :
              /\ cur.depth <= crawlQueue[i].depth
              /\ crawlQueue[i].depth <= cur.depth + 1

\* C19 witness: while a page of depth 1 is being stored, the queue holds an
\* entry of depth 1 ahead of an entry of depth 2.
C19_Witness ==
    /\ pc = "pageFinally"
    /\ cur.depth = 1
    /\ Len(crawlQueue) >= 2
    /\ crawlQueue[1].depth = 1
    /\ crawlQueue[Len(crawlQueue)].depth = 2

\* C20 (as claimed): crawlQueue never holds two entries with the same URL.
C20_NoDuplicateQueued ==
    \A i, j \in 1 .. Len(crawlQueue) :
        i # j => crawlQueue[i].url # crawlQueue[j].url

\* C21 (as claimed): visitedUrls only grows, a URL is added to it only when it
\* is not yet in it, and after every step, the steps inside crawlPage included,
\* every URL of visitedUrls has a PageResult in results.
C21_VisitedHasResult ==
    [][ /\ visitedUrls \subseteq visitedUrls'
        /\ visitedUrls' # visitedUrls => cur.url \notin visitedUrls
        /\ visitedUrls' \subseteq DOMAIN results' ]_vars

\* C22 (as claimed): once results holds a PageResult for a URL, every later
\* step leaves that entry as it is.
C22_ResultImmutable ==
    [][ \A u \in DOMAIN results :
            u \in DOMAIN results' /\ results'[u] = results[u] ]_vars

\* C24: the report is built only in a state where crawlQueue is empty or
\* visitedUrls.size >= maxPages and no fatal error is pending; a crawl() that
\* rejected was aborted by a fatal error and has returned no report.
C24_ReportOnlyAfterLoop ==
    /\ pc \in {"report", "resolved"} =>
          /\ Len(crawlQueue) = 0 \/ Cardinality(visitedUrls) >= config.maxPages
          /\ fatal = "none"
    /\ report # NoReport => pc = "resolved"
    /\ pc = "rejected" => (fatal # "none" /\ report = NoReport)

\* C24 witness: the report was returned after the page budget ended the loop
\* with entries left in the frontier.
C24_Witness ==
    /\ pc = "resolved"
    /\ report # NoReport
    /\ Len(crawlQueue) > 0
    /\ Cardinality(visitedUrls) = config.maxPages

\* C28 (as claimed): in every report returned by crawl(), totalPages is the
\* number of PageResults in the results map.
C28_TotalPagesCountsResults ==
    pc = "resolved" => report.totalPages = Cardinality(DOMAIN results)

\* C29: the seed's PageResult has depth 0 and parentUrl null; every other
\* PageResult, success or error, at depth d names a parentUrl whose own
\* PageResult is a success record at depth d - 1 with that URL in links.internal.
C29_ParentChain ==
    /\ startUrl \in DOMAIN results =>
          (results[startUrl].depth = 0 /\ results[startUrl].parentUrl = NullUrl)
    /\ \A u \in DOMAIN results \ {startUrl} :
          LET parent == results[u].parentUrl
          IN  /\ parent \in DOMAIN results
              /\ ~IsError(results[parent])
              /\ results[parent].depth = results[u].depth - 1
              /\ SeqContains(results[parent].links.internal, u)

\* C29 witness: the results map holds an error record at depth 2 whose parent
\* is a page of depth 1.
C29_Witness ==
    \E u \in DOMAIN results :
        /\ IsError(results[u])
        /\ results[u].depth = 2
        /\ results[u].parentUrl # startUrl

\* C30: every URL pushed to crawlQueue, passed to crawlPage, marked visited or
\* stored as a key of results has the seed's hostname; a link recorded in
\* links.external of a PageResult is never crawled.
C30_SingleDomain ==
    /\ \A i \in 1 .. Len(crawlQueue) : getDomain(crawlQueue[i].url) = getDomain(startUrl)
    /\ pc \in CrawlPagePcs => getDomain(cur.url) = getDomain(startUrl)
    /\ \A u \in visitedUrls \cup DOMAIN results : getDomain(u) = getDomain(startUrl)
    /\ \A u \in AllUrls : getDomain(u) # getDomain(startUrl) => crawlPageCalls[u] = 0
    /\ \A u \in DOMAIN results :
          ~IsError(results[u]) =>
              \A i \in 1 .. Len(results[u].links.external) :
                  /\ getDomain(results[u].links.external[i]) # getDomain(startUrl)
                  /\ crawlPageCalls[results[u].links.external[i]] = 0

\* C30 witness: the frontier was drained with budget left after a page
\* shallower than maxDepth recorded an external link.
C30_Witness ==
    /\ pc = "resolved"
    /\ Len(crawlQueue) = 0
    /\ Cardinality(visitedUrls) < config.maxPages
    /\ \E u \in DOMAIN results :
          /\ ~IsError(results[u])
          /\ results[u].depth < config.maxDepth
          /\ Len(results[u].links.external) > 0

\* the PageResults of the pages whose navigation completed and that were stored
\* as success records
CompletedPages == {u \in DOMAIN results : ~IsError(results[u])}

\* C25 (as claimed): statistics.avgLoadTime of the report is the arithmetic
\* mean of loadTime over the pages that completed navigation, whatever the load
\* times >= 0; error records count neither in the sum nor in the number of
\* samples, and the value is 0 when no page completed navigation.  (The
\* fractions are compared by cross-multiplication.)
C25_AvgLoadTimeIsMean ==
    pc = "resolved" =>
        LET avg   == report.statistics.avgLoadTime
            value == IF avg.count = 0 THEN [sum |-> 0, count |-> 1] ELSE avg
            n     == Cardinality(CompletedPages)
        IN  IF n = 0
            THEN value.sum = 0
            ELSE value.sum * n = SumLoadTime(CompletedPages) * value.count

\* the number of calls of crawlPage, one navigation attempt each
RECURSIVE SumCalls(_)
SumCalls(urls) ==
    IF urls = {} THEN 0
    ELSE LET u == CHOOSE v \in urls : TRUE
         IN  crawlPageCalls[u] + SumCalls(urls \ {u})

\* the seed's entry, and at most MaxAnchors entries pushed by each page marked
\* visited, of which there are at most min(maxPages, NumPaths)
NavigationBound ==
    1 + MaxAnchors * (IF config.maxPages < NumPaths THEN config.maxPages ELSE NumPaths)

\* C27: on every finite site, with any pattern of page failures, robots denials
\* and duplicate queue entries, crawl() eventually settles (it returns a report
\* or rejects), and the number of navigations never exceeds NavigationBound.
C27_CrawlSettles ==
    /\ <>Settled
    /\ [](SumCalls(AllUrls) <= NavigationBound)

\* C27 witness: crawl() has returned its report after a page was stored as an
\* error record and a URL, queued twice, was navigated twice.
C27_Witness ==
    /\ pc = "resolved"
    /\ \E u \in DOMAIN results : IsError(results[u])
    /\ \E u \in AllUrls : crawlPageCalls[u] >= 2

\* the categories of a PageResult and the call each one rests on
CategoryCall ==
    [title |-> "title", meta |-> "content", headings |-> "content", links |-> "content",
     resources |-> "content", headers |-> "headers", screenshot |-> "screenshot"]

\* C23 (as claimed): when the extraction of one category failed for a page, the
\* page is stored as a success record that holds every other category.
C23_CategoriesIndependent ==
    (pc = "pageFinally" /\ extraction.stage = "ran" /\ extraction.failed # {}) =>
        /\ cur.url \in DOMAIN results
        /\ ~IsError(results[cur.url])
        /\ \A category \in DOMAIN CategoryCall :
              CategoryCall[category] \notin extraction.failed =>
                  category \in DOMAIN results[cur.url]

\* C26: crawlWebsite with a seed that does not parse rejects in the constructor:
\* robots.txt is not fetched, no browser is launched, nothing is crawled; with a
\* seed that parses the crawl starts.  An href that does not parse, read on a
\* page whose extraction did not throw, is in neither list of links and in no
\* queue entry, the links are those of the hrefs that parse, and the page is
\* stored as a success record.
C26_InvalidUrlHandling ==
    /\ pc # "construct" => (norm.stage = "threw" <=> normalizeUrlThrows(norm.url))
    /\ norm.stage = "threw" =>
          /\ pc = "rejected"
          /\ fatal = "invalidUrl"
          /\ robotsParser = NoParser
          /\ browser = "null"
          /\ closeCalls = 0
          /\ results = <<>>
          /\ \A u \in AllUrls : crawlPageCalls[u] = 0
    /\ \A i \in 1 .. Len(crawlQueue) : crawlQueue[i].url # InvalidHref
    /\ InvalidHref \notin DOMAIN results
    /\ (pc = "pageFinally" /\ extraction.stage = "ran"
            /\ ~ExtractionThrows(extraction.failed)) =>
          /\ ~IsError(results[cur.url])
          /\ ~SeqContains(results[cur.url].links.internal, InvalidHref)
          /\ ~SeqContains(results[cur.url].links.external, InvalidHref)
          /\ results[cur.url].links =
                CollectLinks(SelectSeq(extraction.hrefs, LAMBDA href : href \in AllUrls),
                             [internal |-> <<>>, external |-> <<>>])

\* C26 witness: a page shallower than maxDepth was stored, with budget left,
\* after it yielded an href that does not parse followed by an internal link.
C26_Witness ==
    /\ pc = "pageFinally"
    /\ extraction.stage = "ran"
    /\ extraction.failed = {}
    /\ Len(extraction.hrefs) = 2
    /\ extraction.hrefs[1] = InvalidHref
    /\ extraction.hrefs[2] \in InternalUrls \ visitedUrls
    /\ cur.depth < config.maxDepth
    /\ Cardinality(visitedUrls) < config.maxPages

=============================================================================
